---- MODULE Spec2Model ----
(***************************************************************************)
(* The write-through LRU cache of sdk/physical/cache.go, placed in front   *)
(* of a physical storage backend.                                          *)
(*                                                                         *)
(* A key is the sequence of its "/"-separated segments: "sys/expire/id" is *)
(* <<"sys", "expire", "id">> and the prefix "sys/expire/" is               *)
(* <<"sys", "expire", "">>.                                                *)
(*                                                                         *)
(* Spec: one caller issues the operations of the cache one after the       *)
(* other; each action is one whole call.  `call`, `ret` and `trace` hold   *)
(* the arguments of the last call, what it returned, and the calls it made *)
(* on its collaborators (shard locks, backend, eviction policy, metrics    *)
(* sink) in the order it made them.                                        *)
(*                                                                         *)
(* CapSpec: the same calls on caches built with small sizes, over more     *)
(* keys than they can hold.                                                *)
(*                                                                         *)
(* ConcSpec (FairSpec with fair scheduling): several goroutines call the   *)
(* cache at once; each action is the return of one call a handler makes    *)
(* (a lock, the backend, the eviction policy).  `pc`, `frame` and `locks`  *)
(* hold where each goroutine is, its locals, and who holds which shard     *)
(* lock.                                                                   *)
(***************************************************************************)
EXTENDS Integers, Sequences, FiniteSets, TLC

VARIABLES
    enabled,    \* Cache.enabled: the uint32 behind the atomic flag
    lru,        \* Cache.lru: the two-queue eviction policy
    backend,    \* the contents of Cache.backend
    call,       \* the last call's name and arguments
    ret,        \* what the last call returned
    trace,      \* the collaborator calls the last call made, in order
    lruSize,    \* the size Cache.lru was built with
    pc,         \* per goroutine: the call of its handler that is in progress
    frame,      \* per goroutine: the arguments and locals of its handler
    locks,      \* Cache.locks: per shard, the writer and the readers holding it
    started,    \* the number of calls on the cache begun so far
    offStart,   \* some Put, Get, Delete or Purge began while the flag was off
    turnedOff   \* SetEnabled(false) has been called

\* What the calls made one after the other record, and what the calls made
\* at once record.
seqVars == <<call, ret, trace>>
concVars == <<pc, frame, locks, started, offStart, turnedOff>>

vars == <<enabled, lru, backend, lruSize, seqVars, concVars>>

----------------------------------------------------------------------------
(* Bounds and inputs *)

\* The size NewCache is given.
CacheSize == 4
\* The number of identifiers the ghost queue of the eviction policy keeps.
GhostSize == 1
\* The number of shard locks.
NumShards == 2

\* The number of goroutines calling the cache at once, and the number of
\* calls they begin between them.
NumProcs == 2
MaxOps == 4
\* The number of calls the goroutines begin between them in the runs checked
\* for termination.
FairOps == 3
\* The largest of the small sizes NewCache is given.
MaxSmallSize == 2

DefaultCacheSize == 128 * 1024

Procs == 1..NumProcs
Shards == 0..(NumShards - 1)

Keys == { <<"foo">>, <<"bar", "baz2">>, <<"sys", "expire", "id">> }

\* The keys of the calls made at once: two keys the cache handles, in
\* different shards.
ConcKeys == { <<"foo">>, <<"bar", "baz2">> }

\* The keys written to the small caches: more than they can hold.
SmallKeys == { <<"foo">>, <<"bar", "baz2">>, <<"quux">> }

AllKeys == Keys \cup ConcKeys \cup SmallKeys

\* The sizes the small caches are built from; 0 stands for "no size given".
SmallSizes == 0..MaxSmallSize

Prefixes == { <<"">>, <<"sys", "expire", "">> }

\* The (prefix, after, limit) a caller pages with.
Pages ==
    { [prefix |-> <<"">>, after |-> <<"bar", "baz2">>, limit |-> 0],
      [prefix |-> <<"sys", "expire", "">>, after |-> <<"">>, limit |-> 1] }

NoErr == "nil"
BackendErrors == { "backend: i/o error" }
Outcomes == {NoErr} \cup BackendErrors

----------------------------------------------------------------------------
(* Values *)

\* A []byte: the nil slice, or a slice with contents.
NilBytes == [isNil |-> TRUE, b |-> <<>>]
Bytes(s) == [isNil |-> FALSE, b |-> s]

\* A nil *Entry, and the nil interface{} value (which no *Entry equals, a
\* nil one included).
NilEntry == [nil |-> "*Entry"]
NilInterface == [nil |-> "interface{}"]

Entry(key, value, valueHash, sealWrap) ==
    [Key |-> key, Value |-> value, ValueHash |-> valueHash, SealWrap |-> sealWrap]

\* The records a caller writes under a key.
EntriesOf(key) ==
    { Entry(key, Bytes(<<1>>), NilBytes, FALSE) }
    \cup IF key = <<"foo">>
         THEN { Entry(key, Bytes(<<2, 3>>), Bytes(<<7>>), TRUE) }
         ELSE {}

Entries == UNION { EntriesOf(k) : k \in Keys }

----------------------------------------------------------------------------
(* Collaborators: the path exception matcher, the shard locks, the backend *)

\* cacheExceptionsPaths, each path split at its "/".
cacheExceptionsPaths ==
    { <<"wal", "logs", "">>,
      <<"index", "pages", "">>,
      <<"index-dr", "pages", "">>,
      <<"sys", "expire", "">>,
      <<"core", "poison-pill">>,
      <<"core", "raft", "tls">>,
      <<"core", "seal-config">>,
      <<"core", "recovery-config">> }

\* p is a prefix of key; the empty last segment of a path that ends in "/"
\* is a prefix of every segment.
IsPrefix(p, key) ==
    /\ Len(p) <= Len(key)
    /\ \A i \in 1..Len(p) : p[i] = "" \/ p[i] = key[i]

\* PathManager.HasPath over the paths NewCache adds.
HasPath(key) == \E p \in cacheExceptionsPaths : IsPrefix(p, key)

RECURSIVE SumLen(_)
SumLen(key) == IF key = <<>> THEN 0 ELSE Len(Head(key)) + 1 + SumLen(Tail(key))

\* locksutil.LockForKey: the index of the one shard lock a key hashes to.
LockIndexForKey(key) == SumLen(key) % NumShards

\* The keys in the order the backend lists them.
KeyOrder == << <<"bar", "baz2">>, <<"foo">>, <<"sys", "expire", "id">> >>

PosOf(key) ==
    IF \E i \in 1..Len(KeyOrder) : KeyOrder[i] = key
    THEN CHOOSE i \in 1..Len(KeyOrder) : KeyOrder[i] = key
    ELSE 0

FirstN(s, n) == IF n > 0 /\ n < Len(s) THEN SubSeq(s, 1, n) ELSE s

\* Backend.Put: stores the entry under its key, or fails with err.
BackendPut(bk, entry, err) ==
    [bk |-> IF err = NoErr THEN [bk EXCEPT ![entry.Key] = entry] ELSE bk,
     err |-> err]

\* Backend.Get: the entry stored under key (a nil *Entry when none is), or
\* a failure with err.
BackendGet(bk, key, err) ==
    [val |-> IF err = NoErr THEN bk[key] ELSE NilEntry, err |-> err]

\* Backend.Delete: removes the entry under key, or fails with err.
BackendDelete(bk, key, err) ==
    [bk |-> IF err = NoErr THEN [bk EXCEPT ![key] = NilEntry] ELSE bk,
     err |-> err]

\* Backend.List: the stored keys under prefix, in order.
BackendList(bk, prefix, err) ==
    [val |-> IF err = NoErr
             THEN SelectSeq(KeyOrder,
                            LAMBDA k : bk[k] # NilEntry /\ IsPrefix(prefix, k))
             ELSE <<>>,
     err |-> err]

\* Backend.ListPage: at most limit (all when limit <= 0) of the stored keys
\* under prefix that come after `after`.
BackendListPage(bk, prefix, after, limit, err) ==
    [val |-> IF err = NoErr
             THEN FirstN(SelectSeq(KeyOrder,
                                   LAMBDA k : /\ bk[k] # NilEntry
                                              /\ IsPrefix(prefix, k)
                                              /\ PosOf(k) > PosOf(after)),
                         limit)
             ELSE <<>>,
     err |-> err]

----------------------------------------------------------------------------
(* The eviction policy: the two-queue cache behind Cache.lru *)

IncomingCap(size) == size \div 4
HotCap(size) == size - IncomingCap(size)

InSeq(s, x) == \E i \in 1..Len(s) : s[i] = x
Without(s, x) == SelectSeq(s, LAMBDA y : y # x)
DropItem(items, k) == [x \in DOMAIN items \ {k} |-> items[x]]

\* lru.New2Q: incoming and ghost oldest first, hot least recently used first.
NoItems == [k \in {} |-> NilInterface]
TwoQueueNew == [incoming |-> <<>>, hot |-> <<>>, ghost |-> <<>>, items |-> NoItems]

TwoQueueContains(q, key) == key \in DOMAIN q.items

\* The oldest incoming entry loses its value and leaves its identifier in
\* the ghost queue, which drops its own oldest identifier first when full.
TwoQueueEvictIncoming(q) ==
    LET oldest == Head(q.incoming)
        ghost == IF Len(q.ghost) >= GhostSize THEN Tail(q.ghost) ELSE q.ghost
    IN  [q EXCEPT !.incoming = Tail(q.incoming),
                  !.ghost = Append(ghost, oldest),
                  !.items = DropItem(q.items, oldest)]

\* The least recently used hot entry is dropped outright.
TwoQueueEvictHot(q, size) ==
    IF Len(q.hot) > HotCap(size)
    THEN [q EXCEPT !.hot = Tail(q.hot), !.items = DropItem(q.items, Head(q.hot))]
    ELSE q

\* TwoQueueCache.Add
TwoQueueAdd(q, size, key, value) ==
    IF TwoQueueContains(q, key)
    THEN [q EXCEPT !.items[key] = value]
    ELSE IF InSeq(q.ghost, key)
    THEN TwoQueueEvictHot([q EXCEPT !.ghost = Without(q.ghost, key),
                                    !.hot = Append(q.hot, key),
                                    !.items = (key :> value) @@ q.items],
                          size)
    ELSE LET q1 == [q EXCEPT !.incoming = Append(q.incoming, key),
                             !.items = (key :> value) @@ q.items]
             q2 == IF Len(q1.incoming) > IncomingCap(size)
                   THEN TwoQueueEvictIncoming(q1)
                   ELSE q1
         IN  TwoQueueEvictHot(q2, size)

\* TwoQueueCache.Get: the value and whether it was a hit; a hit moves the
\* key to the most recently used end of hot.
TwoQueueGet(q, key) ==
    IF TwoQueueContains(q, key)
    THEN [q |-> [q EXCEPT !.incoming = Without(q.incoming, key),
                          !.hot = Append(Without(q.hot, key), key)],
          val |-> q.items[key],
          ok |-> TRUE]
    ELSE [q |-> q, val |-> NilInterface, ok |-> FALSE]

\* TwoQueueCache.Remove
TwoQueueRemove(q, key) ==
    [incoming |-> Without(q.incoming, key),
     hot |-> Without(q.hot, key),
     ghost |-> Without(q.ghost, key),
     items |-> DropItem(q.items, key)]

\* TwoQueueCache.Purge
TwoQueuePurge(q) == TwoQueueNew

----------------------------------------------------------------------------
(* The cache: sdk/physical/cache.go *)

\* A context.Context, as the value it holds under refreshCacheCtxKey.
Background == [refresh_cache |-> "unset"]

\* CacheRefreshContext
CacheRefreshContext(ctx, r) ==
    [ctx EXCEPT !.refresh_cache = IF r THEN "true" ELSE "false"]

\* A lookup that never finds the request.
cacheRefreshNever(ctx) == FALSE

\* cacheRefreshFromContext
cacheRefreshFromContext(ctx) ==
    IF ctx.refresh_cache \notin {"true", "false"}
    THEN FALSE
    ELSE ctx.refresh_cache = "true"

Contexts ==
    { Background,
      CacheRefreshContext(Background, TRUE),
      CacheRefreshContext(Background, FALSE) }

\* A NewCache that builds the eviction policy with the size it is given.
NewCacheSizeAsGiven(size) == size

\* NewCache: the size the eviction policy is built with.
NewCacheSize(size) == IF size <= 0 THEN DefaultCacheSize ELSE size

\* A ShouldCache that looks at the flag alone.
ShouldCacheFlagOnly(en, key) == en # 0

\* Cache.ShouldCache
ShouldCache(en, key) ==
    IF en = 0 THEN FALSE ELSE ~HasPath(key)

\* What the eviction policy holds under a key: the *Entry stored, and two
\* facts of its history: whether a caller holds that same pointer (and so the
\* same buffers), and the record the caller gave the Put that stored it (a
\* nil *Entry when a Get stored it).
Cached(ptr, callerHolds, wrote) ==
    [ptr |-> ptr, callerHolds |-> callerHolds, wrote |-> wrote]

\* make and copy: a new slice with the bytes of the given one.
CopyBytes(b) == Bytes([i \in 1..Len(b.b) |-> b.b[i]])

\* A clone that leaves the value hash behind.
CloneEntryNoHash(entry) ==
    [Key |-> entry.Key,
     SealWrap |-> entry.SealWrap,
     Value |-> IF entry.Value # NilBytes THEN CopyBytes(entry.Value) ELSE NilBytes,
     ValueHash |-> NilBytes]

\* Cache.Put, the clone it stores: a new Entry whose slices are copies.
CloneEntry(entry) ==
    [Key |-> entry.Key,
     SealWrap |-> entry.SealWrap,
     Value |-> IF entry.Value # NilBytes THEN CopyBytes(entry.Value) ELSE NilBytes,
     ValueHash |-> IF entry.ValueHash # NilBytes
                   THEN CopyBytes(entry.ValueHash)
                   ELSE NilBytes]

\* What a call returned.
NoVal == [none |-> TRUE]
Returns(val, err) == [val |-> val, err |-> err, panic |-> FALSE]
Panics == [val |-> NoVal, err |-> NoErr, panic |-> TRUE]

\* The calls a handler makes on its collaborators.
LockEv(kind, i) == [ev |-> kind, shard |-> i]
LruEv(kind, key) == [ev |-> kind, key |-> key]
\* c.metricSink.IncrCounter([]string{"cache", ...}, 1)
MetricEv(name) == [ev |-> "metric", name |-> name, by |-> 1]
BackendPutEv(entry, err) == [ev |-> "backend.Put", entry |-> entry, err |-> err]
BackendGetEv(key, r) == [ev |-> "backend.Get", key |-> key, val |-> r.val, err |-> r.err]
BackendDeleteEv(key, err) == [ev |-> "backend.Delete", key |-> key, err |-> err]
BackendListEv(prefix, r) ==
    [ev |-> "backend.List", prefix |-> prefix, keys |-> r.val, err |-> r.err]
BackendListPageEv(prefix, after, limit, r) ==
    [ev |-> "backend.ListPage", prefix |-> prefix, after |-> after,
     limit |-> limit, keys |-> r.val, err |-> r.err]

\* Cache.Put
CachePut(en, q, size, bk, entry, err) ==
    IF entry # NilEntry /\ ~ShouldCache(en, entry.Key)
    THEN LET r == BackendPut(bk, entry, err)
         IN  [lru |-> q, backend |-> r.bk, ret |-> Returns(NoVal, r.err),
              trace |-> <<BackendPutEv(entry, r.err)>>]
    ELSE IF entry = NilEntry
    THEN \* LockForKey(c.locks, entry.Key) reads Key through the nil pointer
         [lru |-> q, backend |-> bk, ret |-> Panics, trace |-> <<>>]
    ELSE LET i == LockIndexForKey(entry.Key)
             r == BackendPut(bk, entry, err)
         IN  [lru |-> IF r.err = NoErr
                      THEN TwoQueueAdd(q, size, entry.Key,
                                       Cached(CloneEntry(entry), FALSE, entry))
                      ELSE q,
              backend |-> r.bk,
              ret |-> Returns(NoVal, r.err),
              trace |-> <<LockEv("Lock", i), BackendPutEv(entry, r.err)>>
                        \o (IF r.err = NoErr
                            THEN <<LruEv("lru.Add", entry.Key), MetricEv("cache.write")>>
                            ELSE <<>>)
                        \o <<LockEv("Unlock", i)>>]

\* The pointer a Get hands to its caller is from then on held by the caller.
HandOut(q, key) ==
    [q EXCEPT !.items[key].callerHolds = (q.items[key].ptr # NilEntry)]

\* A store that skips what the backend does not hold.
GetStoreIfPresent(q, size, key, ent) ==
    IF ent = NilEntry
    THEN q
    ELSE HandOut(TwoQueueAdd(q, size, key, Cached(ent, FALSE, NilEntry)), key)

\* Cache.Get, "cache the result, even if nil": the pointer the backend
\* returned is stored, and returned to the caller.
GetStore(q, size, key, ent) ==
    HandOut(TwoQueueAdd(q, size, key, Cached(ent, FALSE, NilEntry)), key)

\* A Get that counts no hit when what it finds cached is a nil *Entry.
CacheGetQuietAbsent(en, q, size, bk, ctx, key, err) ==
    IF ~ShouldCache(en, key)
    THEN LET r == BackendGet(bk, key, err)
         IN  [lru |-> q, backend |-> bk, ret |-> Returns(r.val, r.err),
              trace |-> <<BackendGetEv(key, r)>>]
    ELSE LET i == LockIndexForKey(key)
             refresh == cacheRefreshFromContext(ctx)
             probe == IF refresh
                      THEN [q |-> q, val |-> NilInterface, ok |-> FALSE]
                      ELSE TwoQueueGet(q, key)
             probed == <<LockEv("RLock", i)>>
                       \o (IF refresh THEN <<>> ELSE <<LruEv("lru.Get", key)>>)
             r == BackendGet(bk, key, err)
         IN  IF probe.ok
             THEN IF probe.val = NilInterface
                  THEN [lru |-> probe.q, backend |-> bk,
                        ret |-> Returns(NilEntry, NoErr),
                        trace |-> probed \o <<LockEv("RUnlock", i)>>]
                  ELSE [lru |-> HandOut(probe.q, key), backend |-> bk,
                        ret |-> Returns(probe.val.ptr, NoErr),
                        trace |-> probed
                                  \o (IF probe.val.ptr = NilEntry
                                      THEN <<>>
                                      ELSE <<MetricEv("cache.hit")>>)
                                  \o <<LockEv("RUnlock", i)>>]
             ELSE IF r.err # NoErr
             THEN [lru |-> probe.q, backend |-> bk,
                   ret |-> Returns(NilEntry, r.err),
                   trace |-> probed \o <<MetricEv("cache.miss"),
                                         BackendGetEv(key, r),
                                         LockEv("RUnlock", i)>>]
             ELSE [lru |-> GetStore(probe.q, size, key, r.val),
                   backend |-> bk,
                   ret |-> Returns(r.val, NoErr),
                   trace |-> probed \o <<MetricEv("cache.miss"),
                                         BackendGetEv(key, r),
                                         LruEv("lru.Add", key),
                                         LockEv("RUnlock", i)>>]

\* Cache.Get
CacheGet(en, q, size, bk, ctx, key, err) ==
    IF ~ShouldCache(en, key)
    THEN LET r == BackendGet(bk, key, err)
         IN  [lru |-> q, backend |-> bk, ret |-> Returns(r.val, r.err),
              trace |-> <<BackendGetEv(key, r)>>]
    ELSE LET i == LockIndexForKey(key)
             refresh == cacheRefreshFromContext(ctx)
             probe == IF refresh
                      THEN [q |-> q, val |-> NilInterface, ok |-> FALSE]
                      ELSE TwoQueueGet(q, key)
             probed == <<LockEv("RLock", i)>>
                       \o (IF refresh THEN <<>> ELSE <<LruEv("lru.Get", key)>>)
             r == BackendGet(bk, key, err)
         IN  IF probe.ok
             THEN IF probe.val = NilInterface
                  THEN [lru |-> probe.q, backend |-> bk,
                        ret |-> Returns(NilEntry, NoErr),
                        trace |-> probed \o <<LockEv("RUnlock", i)>>]
                  ELSE [lru |-> HandOut(probe.q, key), backend |-> bk,
                        ret |-> Returns(probe.val.ptr, NoErr),
                        trace |-> probed \o <<MetricEv("cache.hit"),
                                              LockEv("RUnlock", i)>>]
             ELSE IF r.err # NoErr
             THEN [lru |-> probe.q, backend |-> bk,
                   ret |-> Returns(NilEntry, r.err),
                   trace |-> probed \o <<MetricEv("cache.miss"),
                                         BackendGetEv(key, r),
                                         LockEv("RUnlock", i)>>]
             ELSE [lru |-> GetStore(probe.q, size, key, r.val),
                   backend |-> bk,
                   ret |-> Returns(r.val, NoErr),
                   trace |-> probed \o <<MetricEv("cache.miss"),
                                         BackendGetEv(key, r),
                                         LruEv("lru.Add", key),
                                         LockEv("RUnlock", i)>>]

\* A Delete that removes the cached entry whatever the backend answered.
CacheDeleteAlwaysRemove(en, q, bk, key, err) ==
    IF ~ShouldCache(en, key)
    THEN LET r == BackendDelete(bk, key, err)
         IN  [lru |-> q, backend |-> r.bk, ret |-> Returns(NoVal, r.err),
              trace |-> <<BackendDeleteEv(key, r.err)>>]
    ELSE LET i == LockIndexForKey(key)
             r == BackendDelete(bk, key, err)
         IN  [lru |-> TwoQueueRemove(q, key),
              backend |-> r.bk,
              ret |-> Returns(NoVal, r.err),
              trace |-> <<LockEv("Lock", i), BackendDeleteEv(key, r.err),
                          LruEv("lru.Remove", key), LockEv("Unlock", i)>>]

\* A Delete that leaves the cached entry where it is.
CacheDeleteKeepsEntry(en, q, bk, key, err) ==
    IF ~ShouldCache(en, key)
    THEN LET r == BackendDelete(bk, key, err)
         IN  [lru |-> q, backend |-> r.bk, ret |-> Returns(NoVal, r.err),
              trace |-> <<BackendDeleteEv(key, r.err)>>]
    ELSE LET i == LockIndexForKey(key)
             r == BackendDelete(bk, key, err)
         IN  [lru |-> q,
              backend |-> r.bk,
              ret |-> Returns(NoVal, r.err),
              trace |-> <<LockEv("Lock", i), BackendDeleteEv(key, r.err),
                          LockEv("Unlock", i)>>]

\* Cache.Delete
CacheDelete(en, q, bk, key, err) ==
    IF ~ShouldCache(en, key)
    THEN LET r == BackendDelete(bk, key, err)
         IN  [lru |-> q, backend |-> r.bk, ret |-> Returns(NoVal, r.err),
              trace |-> <<BackendDeleteEv(key, r.err)>>]
    ELSE LET i == LockIndexForKey(key)
             r == BackendDelete(bk, key, err)
         IN  [lru |-> IF r.err = NoErr THEN TwoQueueRemove(q, key) ELSE q,
              backend |-> r.bk,
              ret |-> Returns(NoVal, r.err),
              trace |-> <<LockEv("Lock", i), BackendDeleteEv(key, r.err)>>
                        \o (IF r.err = NoErr
                            THEN <<LruEv("lru.Remove", key)>>
                            ELSE <<>>)
                        \o <<LockEv("Unlock", i)>>]

\* A List that takes the shard lock of its prefix.
CacheListLocked(q, bk, prefix, err) ==
    LET r == BackendList(bk, prefix, err)
        i == LockIndexForKey(prefix)
    IN  [lru |-> q, backend |-> bk, ret |-> Returns([keys |-> r.val], r.err),
         trace |-> <<LockEv("RLock", i), BackendListEv(prefix, r),
                     LockEv("RUnlock", i)>>]

\* Cache.List
CacheList(q, bk, prefix, err) ==
    LET r == BackendList(bk, prefix, err)
    IN  [lru |-> q, backend |-> bk, ret |-> Returns([keys |-> r.val], r.err),
         trace |-> <<BackendListEv(prefix, r)>>]

\* Cache.ListPage
CacheListPage(q, bk, prefix, after, limit, err) ==
    LET r == BackendListPage(bk, prefix, after, limit, err)
    IN  [lru |-> q, backend |-> bk, ret |-> Returns([keys |-> r.val], r.err),
         trace |-> <<BackendListPageEv(prefix, after, limit, r)>>]

\* A Purge that clears the keys of the first shard only.
CachePurgeFirstShard(q, bk) ==
    LET rest == { k \in DOMAIN q.items : LockIndexForKey(k) # 0 }
    IN  [lru |-> [incoming |-> SelectSeq(q.incoming, LAMBDA k : k \in rest),
                  hot |-> SelectSeq(q.hot, LAMBDA k : k \in rest),
                  ghost |-> <<>>,
                  items |-> [k \in rest |-> q.items[k]]],
         backend |-> bk, ret |-> Returns(NoVal, NoErr),
         trace |-> <<LockEv("Lock", 0),
                     [ev |-> "lru.Purge", dropped |-> DOMAIN q.items \ rest],
                     LockEv("Unlock", 0)>>]

\* Cache.Purge: every shard lock in the order of c.locks, the purge, and the
\* deferred unlocks in reverse.
CachePurge(q, bk) ==
    [lru |-> TwoQueuePurge(q), backend |-> bk, ret |-> Returns(NoVal, NoErr),
     trace |-> [n \in 1..NumShards |-> LockEv("Lock", n - 1)]
               \o <<[ev |-> "lru.Purge", dropped |-> DOMAIN q.items]>>
               \o [n \in 1..NumShards |-> LockEv("Unlock", NumShards - n)]]

\* A SetEnabled that purges when it turns the cache off.
CacheSetEnabledPurging(q, on) ==
    [enabled |-> IF on THEN 1 ELSE 0,
     lru |-> IF on THEN q ELSE TwoQueuePurge(q)]

\* Cache.SetEnabled
CacheSetEnabled(q, on) ==
    [enabled |-> IF on THEN 1 ELSE 0, lru |-> q]

----------------------------------------------------------------------------
(* The state machine *)

\* sync.RWMutex: the goroutine holding it for writing (0 when none does)
\* and the goroutines holding it for reading.
FreeLock == [w |-> 0, r |-> {}]
CanLock(l) == l.w = 0 /\ l.r = {}
CanRLock(l) == l.w = 0

\* The locals of a goroutine that is in no call.
NoFrame ==
    [op |-> "none", key |-> <<>>, entry |-> NilEntry, refresh |-> FALSE,
     val |-> NoVal, err |-> NoErr, next |-> 0]

\* NewCache(b, sz, ...): the flag off ("this fails safe"), an empty eviction
\* policy of the size given (the default one when it is not positive), the
\* shard locks free; no call made yet.
NewCache(sz) ==
    /\ enabled = 0
    /\ lruSize = NewCacheSize(sz)
    /\ lru = TwoQueueNew
    /\ locks = [i \in Shards |-> FreeLock]
    /\ backend = [k \in AllKeys |-> NilEntry]
    /\ call = [op |-> "NewCache"]
    /\ ret = Returns(NoVal, NoErr)
    /\ trace = <<>>
    /\ pc = [p \in Procs |-> "idle"]
    /\ frame = [p \in Procs |-> NoFrame]
    /\ started = 0
    /\ offStart = FALSE
    /\ turnedOff = FALSE

Init == NewCache(CacheSize)

Effect(r) ==
    /\ lru' = r.lru
    /\ backend' = r.backend
    /\ ret' = r.ret
    /\ trace' = r.trace

Put(entry, err) ==
    /\ Effect(CachePut(enabled, lru, lruSize, backend, entry, err))
    /\ call' = [op |-> "Put", entry |-> entry]
    /\ UNCHANGED <<enabled, lruSize, concVars>>

Get(ctx, key, err) ==
    /\ Effect(CacheGet(enabled, lru, lruSize, backend, ctx, key, err))
    /\ call' = [op |-> "Get", ctx |-> ctx, key |-> key]
    /\ UNCHANGED <<enabled, lruSize, concVars>>

Delete(key, err) ==
    /\ Effect(CacheDelete(enabled, lru, backend, key, err))
    /\ call' = [op |-> "Delete", key |-> key]
    /\ UNCHANGED <<enabled, lruSize, concVars>>

List(prefix, err) ==
    /\ Effect(CacheList(lru, backend, prefix, err))
    /\ call' = [op |-> "List", prefix |-> prefix]
    /\ UNCHANGED <<enabled, lruSize, concVars>>

ListPage(prefix, after, limit, err) ==
    /\ Effect(CacheListPage(lru, backend, prefix, after, limit, err))
    /\ call' = [op |-> "ListPage", prefix |-> prefix, after |-> after,
                limit |-> limit]
    /\ UNCHANGED <<enabled, lruSize, concVars>>

Purge ==
    /\ Effect(CachePurge(lru, backend))
    /\ call' = [op |-> "Purge"]
    /\ UNCHANGED <<enabled, lruSize, concVars>>

SetEnabled(on) ==
    /\ enabled' = CacheSetEnabled(lru, on).enabled
    /\ lru' = CacheSetEnabled(lru, on).lru
    /\ call' = [op |-> "SetEnabled", on |-> on]
    /\ ret' = Returns(NoVal, NoErr)
    /\ trace' = <<>>
    /\ UNCHANGED <<backend, lruSize, concVars>>

Next ==
    \/ \E entry \in Entries \cup {NilEntry}, err \in Outcomes : Put(entry, err)
    \/ \E ctx \in Contexts, key \in Keys, err \in Outcomes : Get(ctx, key, err)
    \/ \E key \in Keys, err \in Outcomes : Delete(key, err)
    \/ \E prefix \in Prefixes, err \in Outcomes : List(prefix, err)
    \/ \E page \in Pages, err \in Outcomes :
          ListPage(page.prefix, page.after, page.limit, err)
    \/ Purge
    \/ \E on \in BOOLEAN : SetEnabled(on)

Spec == Init /\ [][Next]_vars

----------------------------------------------------------------------------
(* Small caches: the same calls, on more keys than the cache can hold *)

SmallInit == \E sz \in SmallSizes : NewCache(sz)

SmallNext ==
    \/ \E key \in SmallKeys : \E entry \in EntriesOf(key) : Put(entry, NoErr)
    \/ \E ctx \in Contexts, key \in SmallKeys, err \in Outcomes : Get(ctx, key, err)
    \/ \E key \in SmallKeys : Delete(key, NoErr)
    \/ Purge
    \/ SetEnabled(TRUE)

CapSpec == SmallInit /\ [][SmallNext]_vars

----------------------------------------------------------------------------
(* Calls made at once.  pc[p] names the call of its handler that goroutine *)
(* p is in (waiting for a lock included); an action is that call's return. *)

ConcEntries == UNION { EntriesOf(k) : k \in ConcKeys }
ConcContexts == { Background, CacheRefreshContext(Background, TRUE) }

\* The shard locks goroutine p holds.
Held(lk, p) == { i \in Shards : lk[i].w = p \/ p \in lk[i].r }

\* A Put that leaves the eviction policy alone.
PutNextNoAdd(err) == "PutUnlock"

\* Cache.Put, `if err == nil`: the call that follows c.backend.Put.
PutNext(err) == IF err = NoErr THEN "PutAdd" ELSE "PutUnlock"

\* A Delete that returns a backend error without releasing its lock.
DeleteNextLeak(err) == IF err = NoErr THEN "DeleteRemove" ELSE "idle"

\* Cache.Delete, `if err == nil`: the call that follows c.backend.Delete.
DeleteNext(err) == IF err = NoErr THEN "DeleteRemove" ELSE "DeleteUnlock"

\* A Get that does not wait for the writer of its shard.
GetLockGuardNone(l) == TRUE

\* Cache.Get, lock.RLock(): returns once no goroutine holds the lock for
\* writing.
GetLockGuard(l) == CanRLock(l)

\* A Purge that locks the first shard only.
PurgeLocksFirstOnly == <<0>>

\* A Purge that locks the shards last to first.
PurgeLocksDescending == [n \in 1..NumShards |-> NumShards - n]

\* Cache.Purge, `for _, lock := range c.locks`: the shards in the order
\* Purge locks them.
PurgeLocks == [n \in 1..NumShards |-> n - 1]

\* A call on the cache begins.
Begin(p) ==
    /\ pc[p] = "idle"
    /\ started < MaxOps
    /\ started' = started + 1
    /\ offStart' = (offStart \/ enabled = 0)

Goto(p, label) == pc' = [pc EXCEPT ![p] = label]

Return(p) ==
    /\ pc' = [pc EXCEPT ![p] = "idle"]
    /\ frame' = [frame EXCEPT ![p] = NoFrame]

\* Cache.Put begins: `entry != nil && !c.ShouldCache(entry.Key)`.
PutStart(p, entry) ==
    /\ Begin(p)
    /\ frame' = [frame EXCEPT ![p] =
                    [NoFrame EXCEPT !.op = "Put", !.key = entry.Key, !.entry = entry]]
    /\ Goto(p, IF ShouldCache(enabled, entry.Key) THEN "PutLock" ELSE "PutForward")
    /\ UNCHANGED <<enabled, lru, backend, lruSize, locks, turnedOff, seqVars>>

\* `return c.backend.Put(ctx, entry)`
PutForward(p, err) ==
    /\ pc[p] = "PutForward"
    /\ backend' = BackendPut(backend, frame[p].entry, err).bk
    /\ Return(p)
    /\ UNCHANGED <<enabled, lru, lruSize, locks, started, offStart, turnedOff, seqVars>>

\* `lock.Lock()`
PutLock(p) ==
    LET i == LockIndexForKey(frame[p].key)
    IN  /\ pc[p] = "PutLock"
        /\ CanLock(locks[i])
        /\ locks' = [locks EXCEPT ![i].w = p]
        /\ Goto(p, "PutBackend")
        /\ UNCHANGED <<enabled, lru, backend, lruSize, frame, started, offStart,
                       turnedOff, seqVars>>

\* `err := c.backend.Put(ctx, entry)`
PutBackend(p, err) ==
    /\ pc[p] = "PutBackend"
    /\ backend' = BackendPut(backend, frame[p].entry, err).bk
    /\ frame' = [frame EXCEPT ![p].err = err]
    /\ Goto(p, PutNext(err))
    /\ UNCHANGED <<enabled, lru, lruSize, locks, started, offStart, turnedOff, seqVars>>

\* `c.lru.Add(entry.Key, cacheEntry)`
PutAdd(p) ==
    /\ pc[p] = "PutAdd"
    /\ lru' = TwoQueueAdd(lru, lruSize, frame[p].key,
                          Cached(CloneEntry(frame[p].entry), FALSE, frame[p].entry))
    /\ Goto(p, "PutUnlock")
    /\ UNCHANGED <<enabled, backend, lruSize, locks, frame, started, offStart,
                   turnedOff, seqVars>>

\* `defer lock.Unlock()` and the return
PutUnlock(p) ==
    /\ pc[p] = "PutUnlock"
    /\ locks' = [locks EXCEPT ![LockIndexForKey(frame[p].key)].w = 0]
    /\ Return(p)
    /\ UNCHANGED <<enabled, lru, backend, lruSize, started, offStart, turnedOff, seqVars>>

\* Cache.Get begins: `!c.ShouldCache(key)`.
GetStart(p, ctx, key) ==
    /\ Begin(p)
    /\ frame' = [frame EXCEPT ![p] =
                    [NoFrame EXCEPT !.op = "Get", !.key = key,
                                    !.refresh = cacheRefreshFromContext(ctx)]]
    /\ Goto(p, IF ShouldCache(enabled, key) THEN "GetRLock" ELSE "GetForward")
    /\ UNCHANGED <<enabled, lru, backend, lruSize, locks, turnedOff, seqVars>>

\* `return c.backend.Get(ctx, key)`
GetForward(p, err) ==
    /\ pc[p] = "GetForward"
    /\ Return(p)
    /\ UNCHANGED <<enabled, lru, backend, lruSize, locks, started, offStart,
                   turnedOff, seqVars>>

\* `lock.RLock()`
GetRLock(p) ==
    LET i == LockIndexForKey(frame[p].key)
    IN  /\ pc[p] = "GetRLock"
        /\ GetLockGuard(locks[i])
        /\ locks' = [locks EXCEPT ![i].r = @ \cup {p}]
        /\ Goto(p, IF frame[p].refresh THEN "GetBackend" ELSE "GetProbe")
        /\ UNCHANGED <<enabled, lru, backend, lruSize, frame, started, offStart,
                       turnedOff, seqVars>>

\* `raw, ok := c.lru.Get(key)`: a hit is what the Get returns.
GetProbe(p) ==
    LET r == TwoQueueGet(lru, frame[p].key)
    IN  /\ pc[p] = "GetProbe"
        /\ IF r.ok
           THEN /\ lru' = IF r.val = NilInterface THEN r.q ELSE HandOut(r.q, frame[p].key)
                /\ frame' = [frame EXCEPT ![p].val =
                                IF r.val = NilInterface THEN NilEntry ELSE r.val.ptr]
                /\ Goto(p, "GetRUnlock")
           ELSE /\ lru' = r.q
                /\ Goto(p, "GetBackend")
                /\ UNCHANGED frame
        /\ UNCHANGED <<enabled, backend, lruSize, locks, started, offStart,
                       turnedOff, seqVars>>

\* `ent, err := c.backend.Get(ctx, key)`
GetBackend(p, err) ==
    LET r == BackendGet(backend, frame[p].key, err)
    IN  /\ pc[p] = "GetBackend"
        /\ frame' = [frame EXCEPT ![p].val = r.val, ![p].err = r.err]
        /\ Goto(p, IF r.err # NoErr THEN "GetRUnlock" ELSE "GetAdd")
        /\ UNCHANGED <<enabled, lru, backend, lruSize, locks, started, offStart,
                       turnedOff, seqVars>>

\* `c.lru.Add(key, ent)`
GetAdd(p) ==
    /\ pc[p] = "GetAdd"
    /\ lru' = GetStore(lru, lruSize, frame[p].key, frame[p].val)
    /\ Goto(p, "GetRUnlock")
    /\ UNCHANGED <<enabled, backend, lruSize, locks, frame, started, offStart,
                   turnedOff, seqVars>>

\* `defer lock.RUnlock()` and the return
GetRUnlock(p) ==
    /\ pc[p] = "GetRUnlock"
    /\ locks' = [locks EXCEPT ![LockIndexForKey(frame[p].key)].r = @ \ {p}]
    /\ Return(p)
    /\ UNCHANGED <<enabled, lru, backend, lruSize, started, offStart, turnedOff, seqVars>>

\* Cache.Delete begins: `!c.ShouldCache(key)`.
DeleteStart(p, key) ==
    /\ Begin(p)
    /\ frame' = [frame EXCEPT ![p] = [NoFrame EXCEPT !.op = "Delete", !.key = key]]
    /\ Goto(p, IF ShouldCache(enabled, key) THEN "DeleteLock" ELSE "DeleteForward")
    /\ UNCHANGED <<enabled, lru, backend, lruSize, locks, turnedOff, seqVars>>

\* `return c.backend.Delete(ctx, key)`
DeleteForward(p, err) ==
    /\ pc[p] = "DeleteForward"
    /\ backend' = BackendDelete(backend, frame[p].key, err).bk
    /\ Return(p)
    /\ UNCHANGED <<enabled, lru, lruSize, locks, started, offStart, turnedOff, seqVars>>

\* `lock.Lock()`
DeleteLock(p) ==
    LET i == LockIndexForKey(frame[p].key)
    IN  /\ pc[p] = "DeleteLock"
        /\ CanLock(locks[i])
        /\ locks' = [locks EXCEPT ![i].w = p]
        /\ Goto(p, "DeleteBackend")
        /\ UNCHANGED <<enabled, lru, backend, lruSize, frame, started, offStart,
                       turnedOff, seqVars>>

\* `err := c.backend.Delete(ctx, key)`
DeleteBackend(p, err) ==
    /\ pc[p] = "DeleteBackend"
    /\ backend' = BackendDelete(backend, frame[p].key, err).bk
    /\ IF DeleteNext(err) = "idle"
       THEN Return(p)
       ELSE /\ frame' = [frame EXCEPT ![p].err = err]
            /\ Goto(p, DeleteNext(err))
    /\ UNCHANGED <<enabled, lru, lruSize, locks, started, offStart, turnedOff, seqVars>>

\* `c.lru.Remove(key)`
DeleteRemove(p) ==
    /\ pc[p] = "DeleteRemove"
    /\ lru' = TwoQueueRemove(lru, frame[p].key)
    /\ Goto(p, "DeleteUnlock")
    /\ UNCHANGED <<enabled, backend, lruSize, locks, frame, started, offStart,
                   turnedOff, seqVars>>

\* `defer lock.Unlock()` and the return
DeleteUnlock(p) ==
    /\ pc[p] = "DeleteUnlock"
    /\ locks' = [locks EXCEPT ![LockIndexForKey(frame[p].key)].w = 0]
    /\ Return(p)
    /\ UNCHANGED <<enabled, lru, backend, lruSize, started, offStart, turnedOff, seqVars>>

\* Cache.Purge begins; frame[p].next is its place in c.locks.
PurgeStart(p) ==
    /\ Begin(p)
    /\ frame' = [frame EXCEPT ![p] = [NoFrame EXCEPT !.op = "Purge", !.next = 1]]
    /\ Goto(p, "PurgeLock")
    /\ UNCHANGED <<enabled, lru, backend, lruSize, locks, turnedOff, seqVars>>

\* `lock.Lock()`, once per turn of the loop
PurgeLock(p) ==
    LET n == frame[p].next
        i == PurgeLocks[n]
    IN  /\ pc[p] = "PurgeLock"
        /\ CanLock(locks[i])
        /\ locks' = [locks EXCEPT ![i].w = p]
        /\ IF n = Len(PurgeLocks)
           THEN Goto(p, "PurgePurge") /\ UNCHANGED frame
           ELSE frame' = [frame EXCEPT ![p].next = n + 1] /\ UNCHANGED pc
        /\ UNCHANGED <<enabled, lru, backend, lruSize, started, offStart,
                       turnedOff, seqVars>>

\* `c.lru.Purge()`
PurgePurge(p) ==
    /\ pc[p] = "PurgePurge"
    /\ lru' = TwoQueuePurge(lru)
    /\ Goto(p, "PurgeUnlock")
    /\ UNCHANGED <<enabled, backend, lruSize, locks, frame, started, offStart,
                   turnedOff, seqVars>>

\* `defer lock.Unlock()`, last deferred first, and the return
PurgeUnlock(p) ==
    LET n == frame[p].next
    IN  /\ pc[p] = "PurgeUnlock"
        /\ locks' = [locks EXCEPT ![PurgeLocks[n]].w = 0]
        /\ IF n = 1
           THEN Return(p)
           ELSE frame' = [frame EXCEPT ![p].next = n - 1] /\ UNCHANGED pc
        /\ UNCHANGED <<enabled, lru, backend, lruSize, started, offStart,
                       turnedOff, seqVars>>

\* Cache.SetEnabled, one atomic store, from any goroutine.
FlagSet(on) ==
    /\ started < MaxOps
    /\ started' = started + 1
    /\ enabled' = CacheSetEnabled(lru, on).enabled
    /\ lru' = CacheSetEnabled(lru, on).lru
    /\ turnedOff' = (turnedOff \/ ~on)
    /\ UNCHANGED <<backend, lruSize, pc, frame, locks, offStart, seqVars>>

\* Goroutine p goes on with the call it is in.
Step(p) ==
    \/ \E err \in Outcomes : PutForward(p, err)
    \/ PutLock(p)
    \/ \E err \in Outcomes : PutBackend(p, err)
    \/ PutAdd(p)
    \/ PutUnlock(p)
    \/ \E err \in Outcomes : GetForward(p, err)
    \/ GetRLock(p)
    \/ GetProbe(p)
    \/ \E err \in Outcomes : GetBackend(p, err)
    \/ GetAdd(p)
    \/ GetRUnlock(p)
    \/ \E err \in Outcomes : DeleteForward(p, err)
    \/ DeleteLock(p)
    \/ \E err \in Outcomes : DeleteBackend(p, err)
    \/ DeleteRemove(p)
    \/ DeleteUnlock(p)
    \/ PurgeLock(p)
    \/ PurgePurge(p)
    \/ PurgeUnlock(p)

\* Goroutine p calls the cache.
Start(p) ==
    \/ \E entry \in ConcEntries : PutStart(p, entry)
    \/ \E ctx \in ConcContexts, key \in ConcKeys : GetStart(p, ctx, key)
    \/ \E key \in ConcKeys : DeleteStart(p, key)
    \/ PurgeStart(p)

ConcNext ==
    \/ \E p \in Procs : Start(p)
    \/ \E p \in Procs : Step(p)
    \/ \E on \in BOOLEAN : FlagSet(on)

ConcSpec == Init /\ [][ConcNext]_vars

FairNext == ConcNext /\ started' <= FairOps

\* Every goroutine in a call gets to go on with it, and a backend call
\* returns.
FairSpec == Init /\ [][FairNext]_vars /\ \A p \in Procs : WF_vars(Step(p))

----------------------------------------------------------------------------
(* Reading a state and a trace *)

BackendCalls ==
    {"backend.Put", "backend.Get", "backend.Delete", "backend.List",
     "backend.ListPage"}
LockCalls == {"Lock", "RLock", "Unlock", "RUnlock"}
LruCalls == {"lru.Get", "lru.Add", "lru.Remove", "lru.Purge"}

Only(tr, kinds) == SelectSeq(tr, LAMBDA e : e.ev \in kinds)

\* The key a Put, Get or Delete is about.
KeyOf(c) == IF c.op = "Put" THEN c.entry.Key ELSE c.key

\* The slot of a key in the eviction policy.
NotCached(q, k) == k \notin DOMAIN q.items
CachedPresent(q, k) == k \in DOMAIN q.items /\ q.items[k].ptr # NilEntry
CachedConfirmedAbsent(q, k) == k \in DOMAIN q.items /\ q.items[k].ptr = NilEntry

\* The call is one the cache steps aside for: the flag is off, or the key is
\* under an exception path.
StepsAside(en, k) == en = 0 \/ HasPath(k)

ForcedRefresh(ctx) == ctx.refresh_cache = "true"

----------------------------------------------------------------------------
(* C1 *)

\* C1: with the cache enabled and K under no exception path, a Get(K)
\* without forced refresh that finds the slot a successful Put(K, E) stored
\* (no Delete, Purge, eviction or other store to K since) returns a record
\* equal to E in every field, and reads nothing from the backend.
C1_GetAfterPutReturnsWritten ==
    [][ (/\ call'.op = "Get"
         /\ ~ForcedRefresh(call'.ctx)
         /\ ~StepsAside(enabled, call'.key)
         /\ ~NotCached(lru, call'.key)
         /\ lru.items[call'.key].wrote # NilEntry)
        => /\ ret' = Returns(lru.items[call'.key].wrote, NoErr)
           /\ Only(trace', BackendCalls) = <<>> ]_vars

\* A Get has just returned, from the cache, the record with a value hash
\* that a Put stored.
C1_Witness ==
    /\ call.op = "Get"
    /\ ~NotCached(lru, call.key)
    /\ lru.items[call.key].wrote # NilEntry
    /\ lru.items[call.key].wrote.ValueHash # NilBytes
    /\ ret.val = lru.items[call.key].wrote
    /\ Only(trace, BackendCalls) = <<>>

----------------------------------------------------------------------------
(* C2 *)

\* C2: when the backend call of a Put, a Delete or a Get (a miss or a forced
\* refresh) on a key the cache handles fails, the call returns exactly the
\* backend's error and the eviction policy is what it was before the call,
\* whatever the slot of the key was.
C2_BackendFailureLeavesCache ==
    [][ (/\ call'.op \in {"Put", "Get", "Delete"}
         /\ ~ret'.panic
         /\ ~StepsAside(enabled, KeyOf(call'))
         /\ \E i \in 1..Len(trace') :
               trace'[i].ev \in BackendCalls /\ trace'[i].err # NoErr)
        => /\ Len(Only(trace', BackendCalls)) = 1
           /\ ret'.err = Only(trace', BackendCalls)[1].err
           /\ lru' = lru ]_vars

\* A Delete of a cached key has just failed in the backend, and the key is
\* still cached.
C2_Witness ==
    /\ call.op = "Delete"
    /\ ~StepsAside(enabled, call.key)
    /\ ret.err \in BackendErrors
    /\ CachedPresent(lru, call.key)

----------------------------------------------------------------------------
(* C3 *)

\* C3: whenever the flag is off or the key is under an exception path, a Put
\* with a record, a Get and a Delete make one call, on the backend, with the
\* arguments they were given; they return what it returned, take no shard
\* lock, and leave the eviction policy as it was.
C3_SteppingAsideGoesStraightToBackend ==
    [][ (/\ call'.op \in {"Put", "Get", "Delete"}
         /\ call'.op = "Put" => call'.entry # NilEntry
         /\ StepsAside(enabled, KeyOf(call')))
        => /\ Len(trace') = 1
           /\ Only(trace', LockCalls \cup LruCalls) = <<>>
           /\ ~ret'.panic
           /\ ret'.err = trace'[1].err
           /\ CASE call'.op = "Put" ->
                     /\ trace'[1].ev = "backend.Put"
                     /\ trace'[1].entry = call'.entry
                [] call'.op = "Get" ->
                     /\ trace'[1].ev = "backend.Get"
                     /\ trace'[1].key = call'.key
                     /\ ret'.val = trace'[1].val
                [] call'.op = "Delete" ->
                     /\ trace'[1].ev = "backend.Delete"
                     /\ trace'[1].key = call'.key
           /\ lru' = lru ]_vars

\* With the cache on and holding entries, a Get of a key under an exception
\* path has just returned the record the backend holds.
C3_Witness ==
    /\ call.op = "Get"
    /\ enabled # 0
    /\ HasPath(call.key)
    /\ ret.val \in Entries
    /\ ret.val = backend[call.key]
    /\ DOMAIN lru.items # {}

----------------------------------------------------------------------------
(* C4 *)

\* C4: a Put with a nil record goes straight to the backend: one call, on
\* the backend, no shard lock, and the backend's answer returned, with the
\* flag on or off.
C4_NilPutIsForwarded ==
    (call.op = "Put" /\ call.entry = NilEntry)
    => /\ ~ret.panic
       /\ Len(trace) = 1
       /\ trace[1].ev = "backend.Put"
       /\ ret.err = trace[1].err

----------------------------------------------------------------------------
(* C5 *)

\* C5: no record the cache holds is one a caller holds too, be it the record
\* given to a Put or the record a Get returned.
C5_NoCachedRecordSharedWithCaller ==
    \A k \in DOMAIN lru.items : ~lru.items[k].callerHolds

----------------------------------------------------------------------------
(* C6 *)

\* C6: a Get of a key the cache handles that reads the backend and finds
\* nothing stores the Confirmed-Absent sentinel; a Get without forced
\* refresh of a Confirmed-Absent key returns absent, reads nothing from the
\* backend and leaves the key Confirmed-Absent; and a key stops being
\* Confirmed-Absent only by a Delete or a Put of it, a Purge, a forced
\* refresh of it, or its eviction by a store to another key.
C6_ConfirmedAbsence ==
    [][ /\ (/\ call'.op = "Get"
            /\ ~StepsAside(enabled, call'.key)
            /\ backend[call'.key] = NilEntry
            /\ \E i \in 1..Len(trace') :
                  trace'[i].ev = "backend.Get" /\ trace'[i].err = NoErr)
           => /\ CachedConfirmedAbsent(lru', call'.key)
              /\ ret' = Returns(NilEntry, NoErr)
        /\ (/\ call'.op = "Get"
            /\ ~ForcedRefresh(call'.ctx)
            /\ ~StepsAside(enabled, call'.key)
            /\ CachedConfirmedAbsent(lru, call'.key))
           => /\ ret' = Returns(NilEntry, NoErr)
              /\ Only(trace', BackendCalls) = <<>>
              /\ CachedConfirmedAbsent(lru', call'.key)
        /\ \A k \in Keys :
              (CachedConfirmedAbsent(lru, k) /\ ~CachedConfirmedAbsent(lru', k))
              => \/ call'.op = "Purge"
                 \/ call'.op \in {"Put", "Delete"} /\ KeyOf(call') = k
                 \/ call'.op = "Get" /\ call'.key = k /\ ForcedRefresh(call'.ctx)
                 \/ /\ call'.op \in {"Put", "Get"}
                    /\ KeyOf(call') # k
                    /\ NotCached(lru', k) ]_vars

\* A Get without forced refresh has just answered "absent" from the cache,
\* for a key the backend does not hold.
C6_Witness ==
    /\ call.op = "Get"
    /\ ~ForcedRefresh(call.ctx)
    /\ CachedConfirmedAbsent(lru, call.key)
    /\ backend[call.key] = NilEntry
    /\ ret = Returns(NilEntry, NoErr)
    /\ Only(trace, BackendCalls) = <<>>
    /\ Only(trace, {"lru.Get"}) # <<>>

----------------------------------------------------------------------------
(* C7 *)

\* C7: a Get with forced refresh of a key the cache handles reads the
\* backend exactly once and the eviction policy not at all, whatever the
\* slot of the key; it returns what the backend answered (its error, or the
\* record or absence it holds), and when the read succeeds the slot of the
\* key afterwards holds what the backend answered.
C7_ForcedRefreshReadsBackend ==
    [][ (/\ call'.op = "Get"
         /\ ForcedRefresh(call'.ctx)
         /\ ~StepsAside(enabled, call'.key))
        => LET reads == Only(trace', BackendCalls)
           IN  /\ Len(reads) = 1
               /\ reads[1].ev = "backend.Get"
               /\ reads[1].key = call'.key
               /\ Only(trace', {"lru.Get"}) = <<>>
               /\ ret'.err = reads[1].err
               /\ ret'.val = reads[1].val
               /\ reads[1].err = NoErr
                  => /\ reads[1].val = backend[call'.key]
                     /\ ~NotCached(lru', call'.key)
                     /\ lru'.items[call'.key].ptr = reads[1].val
               /\ reads[1].err # NoErr
                  => ret'.val = NilEntry /\ lru' = lru ]_vars

\* A forced refresh of a key the eviction policy already knew (the key is in
\* the hot queue) has just read the backend and stored and returned its
\* record.
C7_Witness ==
    /\ call.op = "Get"
    /\ ForcedRefresh(call.ctx)
    /\ ~StepsAside(enabled, call.key)
    /\ InSeq(lru.hot, call.key)
    /\ CachedPresent(lru, call.key)
    /\ ret.val = backend[call.key]
    /\ lru.items[call.key].ptr = ret.val
    /\ Len(Only(trace, {"backend.Get"})) = 1

----------------------------------------------------------------------------
(* C8 *)

\* C8: when Purge has returned every key is Not Cached, in whichever shard
\* it is and whatever its slot was; and a Get of a key that is Not Cached
\* reads the backend once.
C8_PurgeEmptiesCache ==
    /\ [](call.op = "Purge" => \A k \in Keys : NotCached(lru, k))
    /\ [][ (call'.op = "Get" /\ NotCached(lru, call'.key))
           => /\ Len(Only(trace', BackendCalls)) = 1
              /\ Only(trace', BackendCalls)[1].ev = "backend.Get"
              /\ Only(trace', BackendCalls)[1].key = call'.key ]_vars

\* Purge has just dropped cached keys of two different shards.
C8_Witness ==
    /\ call.op = "Purge"
    /\ \E e \in { trace[i] : i \in 1..Len(trace) } :
          /\ e.ev = "lru.Purge"
          /\ \E k1, k2 \in e.dropped : LockIndexForKey(k1) # LockIndexForKey(k2)
    /\ \A k \in Keys : NotCached(lru, k)

----------------------------------------------------------------------------
(* C9 *)

\* C9: SetEnabled leaves the eviction policy as it is, and so does every
\* call but Purge made while the flag is off; and with the cache on, a Get
\* without forced refresh of a cached key returns what the cache holds and
\* reads nothing from the backend, whatever the backend holds for that key
\* by then.
C9_SetEnabledKeepsEntries ==
    [][ /\ call'.op = "SetEnabled" => lru' = lru
        /\ (enabled = 0 /\ call'.op \notin {"SetEnabled", "Purge"}) => lru' = lru
        /\ (/\ call'.op = "Get"
            /\ ~ForcedRefresh(call'.ctx)
            /\ ~StepsAside(enabled, call'.key)
            /\ ~NotCached(lru, call'.key))
           => /\ ret' = Returns(lru.items[call'.key].ptr, NoErr)
              /\ Only(trace', BackendCalls) = <<>> ]_vars

\* A Get has just returned, from the cache, a record that the backend no
\* longer holds as such: it was changed while the cache was off.
C9_Witness ==
    /\ call.op = "Get"
    /\ enabled # 0
    /\ CachedPresent(lru, call.key)
    /\ ret.val = lru.items[call.key].ptr
    /\ ret.val # backend[call.key]
    /\ Only(trace, BackendCalls) = <<>>

----------------------------------------------------------------------------
(* C10 *)

\* C10: List and ListPage make one call, on the backend, with the arguments
\* they were given, and return what it returned, with the flag on or off and
\* whatever the prefix; they take no shard lock and neither read nor change
\* the eviction policy.
C10_ListGoesStraightToBackend ==
    [][ (call'.op \in {"List", "ListPage"})
        => /\ Len(trace') = 1
           /\ Only(trace', LockCalls \cup LruCalls) = <<>>
           /\ trace'[1].prefix = call'.prefix
           /\ IF call'.op = "List"
              THEN trace'[1].ev = "backend.List"
              ELSE /\ trace'[1].ev = "backend.ListPage"
                   /\ trace'[1].after = call'.after
                   /\ trace'[1].limit = call'.limit
           /\ ret' = Returns([keys |-> trace'[1].keys], trace'[1].err)
           /\ lru' = lru
           /\ backend' = backend ]_vars

\* With the cache on and holding entries, a List under an exception path has
\* just returned the keys the backend holds there.
C10_Witness ==
    /\ call.op = "List"
    /\ enabled # 0
    /\ HasPath(call.prefix)
    /\ ret.val.keys # <<>>
    /\ ret.err = NoErr
    /\ DOMAIN lru.items # {}

----------------------------------------------------------------------------
(* Reading a state of the calls made at once *)

\* The flag was turned on before any call began and has been on since.
Steady == enabled # 0 /\ ~offStart /\ ~turnedOff

\* No goroutine holds the lock of shard i.
ShardQuiet(i) == locks[i] = FreeLock

\* The calls made between taking a shard lock and releasing it.
BackendLabels == {"PutBackend", "GetBackend", "DeleteBackend"}
LruLabels == {"PutAdd", "GetProbe", "GetAdd", "DeleteRemove", "PurgePurge"}
ExclusiveLabels ==
    {"PutBackend", "PutAdd", "PutUnlock", "DeleteBackend", "DeleteRemove",
     "DeleteUnlock"}
SharedLabels == {"GetProbe", "GetBackend", "GetAdd", "GetRUnlock"}
LockedLabels == ExclusiveLabels \cup SharedLabels
WaitLabels == {"PutLock", "GetRLock", "DeleteLock"}
ForwardLabels == {"PutForward", "GetForward", "DeleteForward"}

\* What the cache holds for k is what the backend holds for k.
Coherent(k) ==
    /\ CachedPresent(lru, k) => lru.items[k].ptr = backend[k]
    /\ CachedConfirmedAbsent(lru, k) => backend[k] = NilEntry

----------------------------------------------------------------------------
(* C11 *)

\* C11: when the flag was turned on before any call began and has been on
\* since, then whenever no goroutine holds the lock of a key's shard, a key
\* that is Cached Present holds the record the backend holds (the one of the
\* last successful backend Put), and a key that is Cached Confirmed-Absent
\* is absent in the backend.
C11_CacheMatchesBackend ==
    Steady =>
        \A k \in ConcKeys : ShardQuiet(LockIndexForKey(k)) => Coherent(k)

\* A key is cached with the record a Put wrote, its shard is quiet, and a
\* Delete of it and a Get of it have both begun.
C11_Witness ==
    /\ Steady
    /\ ShardQuiet(LockIndexForKey(<<"foo">>))
    /\ CachedPresent(lru, <<"foo">>)
    /\ lru.items[<<"foo">>].ptr = backend[<<"foo">>]
    /\ lru.items[<<"foo">>].ptr.ValueHash # NilBytes
    /\ \E p, q \in Procs :
          /\ pc[p] = "DeleteLock" /\ frame[p].key = <<"foo">>
          /\ pc[q] = "GetRLock" /\ frame[q].key = <<"foo">>

----------------------------------------------------------------------------
(* C12 *)

\* C12: once the flag has been turned on and never off, then whenever no
\* call is in progress every cached key holds what the backend holds,
\* calls that began while the flag was still off included.
C12_CoherentOnceEnabled ==
    (enabled # 0 /\ ~turnedOff /\ \A p \in Procs : pc[p] = "idle")
    => \A k \in ConcKeys : Coherent(k)

----------------------------------------------------------------------------
(* C13 *)

\* C13: while a Put or Delete on the locked path is between its Lock and
\* its Unlock it holds the lock of its key's shard for writing, no
\* goroutine holds that lock for reading, and no other Put, Get or Delete
\* on a key of that shard is in its backend call, its eviction-policy call
\* or its unlock; and while the flag has been on from before the first
\* call, what a Get is about to return without error is the whole record
\* the backend holds for the key at that moment, a concurrent Put of the
\* key being either not yet inside its locked section or already out of it.
C13_ExclusiveLockExcludes ==
    /\ \A p \in Procs :
          pc[p] \in ExclusiveLabels =>
             LET i == LockIndexForKey(frame[p].key)
             IN  /\ locks[i] = [w |-> p, r |-> {}]
                 /\ \A q \in Procs \ {p} :
                       pc[q] \in LockedLabels
                       => LockIndexForKey(frame[q].key) # i
    /\ Steady =>
          \A p \in Procs :
             (pc[p] = "GetRUnlock" /\ frame[p].err = NoErr)
             => /\ frame[p].val = backend[frame[p].key]
                /\ \A q \in Procs \ {p} :
                      frame[q].key = frame[p].key => pc[q] \notin ExclusiveLabels

\* A Put of a second record for a key is inside its locked section, past
\* its backend call, while a Get of the same key waits for the lock.
C13_Witness ==
    \E p, q \in Procs :
       /\ pc[p] = "PutAdd"
       /\ frame[p].key = <<"foo">>
       /\ CachedPresent(lru, <<"foo">>)
       /\ lru.items[<<"foo">>].ptr # backend[<<"foo">>]
       /\ pc[q] = "GetRLock"
       /\ frame[q].key = <<"foo">>

\* Two Gets of keys of one shard hold its lock for reading at once.
C13_TwoReaders ==
    \E p, q \in Procs :
       /\ p # q
       /\ pc[p] \in SharedLabels
       /\ pc[q] \in SharedLabels
       /\ locks[LockIndexForKey(frame[p].key)].r = {p, q}

----------------------------------------------------------------------------
(* C14 *)

\* C14: at no time are two goroutines in a call on the eviction policy
\* (Add, Get, Remove, Purge) at once.
C14_OneEvictionPolicyCallAtATime ==
    Cardinality({ p \in Procs : pc[p] \in LruLabels }) <= 1

----------------------------------------------------------------------------
(* C15 *)

\* C15: while a Purge is in its call that clears the eviction policy it
\* holds the lock of every shard for writing, and no other goroutine is
\* between the Lock (or RLock) and the Unlock of a Put, Get or Delete, nor
\* in the locked part of another Purge; and when the call has returned, as
\* long as the Purge has released no lock, the eviction policy holds
\* nothing of what was written to it before.
C15_PurgeHoldsEveryShard ==
    \A p \in Procs :
       /\ pc[p] = "PurgePurge"
          => /\ \A i \in Shards : locks[i] = [w |-> p, r |-> {}]
             /\ \A q \in Procs \ {p} :
                   /\ pc[q] \notin LockedLabels \cup {"PurgePurge", "PurgeUnlock"}
                   /\ Held(locks, q) = {}
       /\ (pc[p] = "PurgeUnlock" /\ Held(locks, p) = Shards)
          => lru = TwoQueueNew

\* A Purge has just cleared the eviction policy, which held a record a Put
\* had written, and still holds every lock; a Get of that key waits.
C15_Witness ==
    \E p, q \in Procs :
       /\ Steady
       /\ pc[p] = "PurgeUnlock"
       /\ Held(locks, p) = Shards
       /\ backend[<<"foo">>] # NilEntry
       /\ NotCached(lru, <<"foo">>)
       /\ pc[q] = "GetRLock"
       /\ frame[q].key = <<"foo">>

----------------------------------------------------------------------------
(* C16 *)

\* C16: a Put, Get or Delete holds no lock before its Lock (or RLock)
\* returns nor on the forwarding path, and from then to its Unlock exactly
\* the lock of the shard its key maps to; a goroutine waiting for that lock
\* finds it free whenever every other goroutine is idle or in a Put, Get or
\* Delete of a key of another shard; and a Purge holds the shards below the
\* one it is waiting for, every shard while it clears, and on its way out
\* the shards up to the one it releases next.
C16_LockFootprint ==
    \A p \in Procs :
       LET held == Held(locks, p)
           i == LockIndexForKey(frame[p].key)
       IN  /\ pc[p] \in {"idle"} \cup ForwardLabels \cup WaitLabels => held = {}
           /\ pc[p] \in LockedLabels => held = {i}
           /\ pc[p] \in WaitLabels
              => ((\A q \in Procs \ {p} :
                      \/ frame[q].op = "none"
                      \/ /\ frame[q].op \in {"Put", "Get", "Delete"}
                         /\ LockIndexForKey(frame[q].key) # i)
                  => locks[i] = FreeLock)
           /\ pc[p] = "PurgeLock" => held = { j \in Shards : j < frame[p].next - 1 }
           /\ pc[p] = "PurgePurge" => held = Shards
           /\ pc[p] = "PurgeUnlock" => held = { j \in Shards : j < frame[p].next }

\* A Put holds the lock of its key's shard, the second one, and a Purge
\* that holds the first shard waits for it.
C16_Witness ==
    \E p, q \in Procs :
       /\ pc[p] = "PutBackend"
       /\ LockIndexForKey(frame[p].key) = 1
       /\ Held(locks, p) = {1}
       /\ pc[q] = "PurgeLock"
       /\ Held(locks, q) = {0}

----------------------------------------------------------------------------
(* C17 *)

\* C17: with every goroutine that is in a call getting to go on with it,
\* and backend calls that return, every Put, Get, Delete and Purge that has
\* begun returns; and whenever no call is in progress every shard lock is
\* free.
C17_EveryCallReturns ==
    /\ \A p \in Procs : (pc[p] # "idle") ~> (pc[p] = "idle")
    /\ []((\A p \in Procs : pc[p] = "idle") => \A i \in Shards : locks[i] = FreeLock)

\* A Delete whose backend call failed still holds the lock of its shard,
\* the second one, and a Purge that holds the first shard waits for it.
C17_Witness ==
    \E p, q \in Procs :
       /\ pc[p] = "DeleteUnlock"
       /\ frame[p].err \in BackendErrors
       /\ Held(locks, p) = {1}
       /\ pc[q] = "PurgeLock"
       /\ Held(locks, q) = {0}

----------------------------------------------------------------------------
(* C18 *)

\* C18: when a Delete of a key the cache handles returns without error the
\* key is Not Cached, whatever its slot was, and every other key has the
\* slot it had; and a Get of that key made next reads the backend once.
C18_DeleteLeavesNotCached ==
    [][ /\ (/\ call'.op = "Delete"
            /\ ~StepsAside(enabled, call'.key)
            /\ ret'.err = NoErr)
           => /\ NotCached(lru', call'.key)
              /\ DOMAIN lru'.items = DOMAIN lru.items \ {call'.key}
              /\ \A k \in DOMAIN lru'.items : lru'.items[k] = lru.items[k]
        /\ (/\ call.op = "Delete"
            /\ ret.err = NoErr
            /\ call'.op = "Get"
            /\ call'.key = call.key
            /\ ~StepsAside(enabled, call'.key))
           => /\ Len(Only(trace', BackendCalls)) = 1
              /\ Only(trace', BackendCalls)[1].ev = "backend.Get"
              /\ Only(trace', BackendCalls)[1].key = call'.key ]_vars

\* A Delete of a key the cache handles has just returned without error:
\* it made its Remove, the key is Not Cached and another key is still
\* cached.
C18_Witness ==
    /\ call.op = "Delete"
    /\ ~StepsAside(enabled, call.key)
    /\ ret.err = NoErr
    /\ Only(trace, {"lru.Remove"}) # <<>>
    /\ NotCached(lru, call.key)
    /\ \E k \in Keys \ {call.key} : CachedPresent(lru, k)

----------------------------------------------------------------------------
(* C19 *)

\* C19: a Get of a key the cache handles increments one counter, once, by
\* one: the hit counter when it reads nothing from the backend, which is
\* when it is not a forced refresh and the key is cached, Confirmed-Absent
\* included; the miss counter when it reads the backend, which is when it
\* is a forced refresh or the key is Not Cached, whether or not the read
\* fails.
C19_OneCounterPerGet ==
    [][ (call'.op = "Get" /\ ~StepsAside(enabled, call'.key))
        => LET counted == Only(trace', {"metric"})
               reads == Only(trace', BackendCalls)
               served == ~ForcedRefresh(call'.ctx) /\ ~NotCached(lru, call'.key)
           IN  /\ Len(counted) = 1
               /\ counted[1].by = 1
               /\ served => (counted[1].name = "cache.hit" /\ reads = <<>>)
               /\ ~served => (counted[1].name = "cache.miss" /\ Len(reads) = 1) ]_vars

\* A Get has just answered "absent" from a Confirmed-Absent slot and
\* counted one hit.
C19_Witness ==
    /\ call.op = "Get"
    /\ ~ForcedRefresh(call.ctx)
    /\ ~StepsAside(enabled, call.key)
    /\ CachedConfirmedAbsent(lru, call.key)
    /\ ret = Returns(NilEntry, NoErr)
    /\ Only(trace, BackendCalls) = <<>>
    /\ Only(trace, {"metric"}) = <<MetricEv("cache.hit")>>

----------------------------------------------------------------------------
(* C20 *)

\* C20: whatever Puts, Gets, Deletes and Purges were made, the eviction
\* policy holds a value for no more keys, incoming and hot together, than
\* the size it was built with, which is the size NewCache was given when
\* positive and the default size otherwise.
C20_ResidentWithinCapacity ==
    /\ Cardinality(DOMAIN lru.items) = Len(lru.incoming) + Len(lru.hot)
    /\ Len(lru.incoming) + Len(lru.hot) <= lruSize
    /\ lruSize > 0
    /\ lruSize \in SmallSizes \/ lruSize = DefaultCacheSize

\* A cache built with size 2 holds two keys, and a Put of a third key has
\* just written the backend and made its Add: the cache still holds the two
\* keys and the third is not resident.
C20_Witness ==
    /\ lruSize = 2
    /\ Len(lru.hot) + Len(lru.incoming) = 2
    /\ call.op = "Put"
    /\ ret.err = NoErr
    /\ Only(trace, {"lru.Add"}) # <<>>
    /\ NotCached(lru, call.entry.Key)
    /\ backend[call.entry.Key] = call.entry

====
